---- MODULE Spec2Model ----
(***************************************************************************)
(* Road-damage detection service (flask-server/app.py): the detections     *)
(* table, the uploads directory, the model handle and the HTTP handlers.   *)
(*                                                                         *)
(* Conventions.  A JSON object is a function from its keys to its values;  *)
(* a JSON array is a sequence.  A scalar whose Python type matters to the  *)
(* code (latitude, longitude, save_result, the <id> of a URL) is a tagged   *)
(* record [k |-> "num" | "str" | "bool" | "null", ...].  A confidence is    *)
(* an integer number of hundredths (85 is 0.85).  JSON text is a sequence  *)
(* of tokens.  A uuid4 token is a natural number that names no file and    *)
(* no row yet (uuid4 never repeats; a token that left no trace is not      *)
(* tracked).                                                               *)
(***************************************************************************)
EXTENDS Integers, Sequences, FiniteSets, TLC

\* Bound: the number of image files written in one run (one per save
\* attempt that reaches the write); the table never holds more rows.
MaxSaves == 2

\* What DEFAULT CURRENT_TIMESTAMP may read at an insert.  The resolution is
\* one second, so two inserts may read the same value, and the wall clock
\* may step backwards between two inserts: any reading may follow any other.
Times == {1, 2}

(***************************************************************************)
(* Program constants                                                       *)
(***************************************************************************)
CLASSES == <<"Longitudinal Crack", "Transverse Crack", "Alligator Crack", "Potholes">>

UPLOAD_FOLDER == "uploads"

\* base64_to_image: minimum base64 text length and minimum decoded length.
MinBase64Len == 100

MinImageBytes == 1000

\* image_to_base64: max_size.
max_size == 800

\* run_yolo_inference: the model's input resolution.
ModelSize == 640

(***************************************************************************)
(* Tagged scalars                                                          *)
(***************************************************************************)
Num(n) == [k |-> "num", v |-> n]

Str(s) == [k |-> "str", s |-> s]

Bool(b) == [k |-> "bool", b |-> b]

Null == [k |-> "null"]

\* Python's float(x) as the handlers use it on latitude and longitude:
\* a number converts to the same number, text that is no numeral raises
\* ValueError, None raises TypeError.  (float(True) is 1.0.)
ToFloat(x) ==
    CASE x.k = "num" -> [ok |-> TRUE, v |-> x.v]
      [] x.k = "bool" -> [ok |-> TRUE, v |-> IF x.b THEN 1 ELSE 0]
      [] OTHER -> [ok |-> FALSE, v |-> 0]

\* Python truthiness of a JSON scalar (`if save_result and ...`).
Truthy(x) ==
    CASE x.k = "bool" -> x.b
      [] x.k = "num" -> x.v # 0
      [] x.k = "str" -> x.s # ""
      [] OTHER -> FALSE

(***************************************************************************)
(* json.dumps / json.loads on the values the table stores: arrays of       *)
(* objects, arrays of numbers.  Text is a sequence of tokens.              *)
(***************************************************************************)
Punct(c) == [t |-> c, s |-> "", n |-> 0]

StrTok(s) == [t |-> "str", s |-> s, n |-> 0]

NumTok(n) == [t |-> "num", s |-> "", n |-> n]

\* The keys of a damage object in the order the writers emit them.
DamageKeys == <<"class", "confidence", "bbox">>

RECURSIVE DumpNums(_)
DumpNums(ns) ==
    IF ns = <<>> THEN <<>>
    ELSE <<NumTok(Head(ns))>>
         \o (IF Len(ns) > 1 THEN <<Punct(",")>> ELSE <<>>)
         \o DumpNums(Tail(ns))

\* json.dumps of an array of numbers.
DumpNumList(ns) == <<Punct("[")>> \o DumpNums(ns) \o <<Punct("]")>>

DumpMember(d, key) ==
    <<StrTok(key), Punct(":")>>
    \o (CASE key = "class" -> <<StrTok(d[key])>>
          [] key = "confidence" -> <<NumTok(d[key])>>
          [] OTHER -> DumpNumList(d[key]))

RECURSIVE DumpMembers(_, _)
DumpMembers(d, keys) ==
    IF keys = <<>> THEN <<>>
    ELSE DumpMember(d, Head(keys))
         \o (IF Len(keys) > 1 THEN <<Punct(",")>> ELSE <<>>)
         \o DumpMembers(d, Tail(keys))

\* json.dumps of one damage object: its present keys, in order.
DumpDamage(d) ==
    <<Punct("{")>>
    \o DumpMembers(d, SelectSeq(DamageKeys, LAMBDA key : key \in DOMAIN d))
    \o <<Punct("}")>>

RECURSIVE DumpDamages(_)
DumpDamages(ds) ==
    IF ds = <<>> THEN <<>>
    ELSE DumpDamage(Head(ds))
         \o (IF Len(ds) > 1 THEN <<Punct(",")>> ELSE <<>>)
         \o DumpDamages(Tail(ds))

\* json.dumps of a list of damage objects.
DumpDamageList(ds) == <<Punct("[")>> \o DumpDamages(ds) \o <<Punct("]")>>

\* json.loads: a recursive-descent parser; each step returns the value read
\* and the tokens left.
RECURSIVE ParseValue(_), ParseItems(_, _), ParseMembers(_, _)
ParseValue(toks) ==
    LET h == Head(toks)
        r == Tail(toks)
    IN  CASE h.t = "str" -> [v |-> h.s, rest |-> r]
          [] h.t = "num" -> [v |-> h.n, rest |-> r]
          [] h.t = "[" ->
                IF Head(r).t = "]" THEN [v |-> <<>>, rest |-> Tail(r)]
                ELSE ParseItems(r, <<>>)
          [] OTHER ->
                IF Head(r).t = "}" THEN [v |-> <<>>, rest |-> Tail(r)]
                ELSE ParseMembers(r, <<>>)

ParseItems(toks, acc) ==
    LET item == ParseValue(toks)
        sep == Head(item.rest)
    IN  IF sep.t = ","
        THEN ParseItems(Tail(item.rest), Append(acc, item.v))
        ELSE [v |-> Append(acc, item.v), rest |-> Tail(item.rest)]

ParseMembers(toks, acc) ==
    LET key == Head(toks).s
        item == ParseValue(Tail(Tail(toks)))
        sep == Head(item.rest)
        obj == (key :> item.v) @@ acc
    IN  IF sep.t = ","
        THEN ParseMembers(Tail(item.rest), obj)
        ELSE [v |-> obj, rest |-> Tail(item.rest)]

json_loads(text) == ParseValue(text).v

(***************************************************************************)
(* Damage records and the lists a client may submit                        *)
(***************************************************************************)
Pothole == [class |-> "Potholes", confidence |-> 85, bbox |-> <<1, 2, 3, 4>>]

\* A damage with no "class" key and one with no "confidence" key.
Unclassed == [confidence |-> 50, bbox |-> <<5, 5, 6, 6>>]

Unscored == [class |-> "Alligator Crack"]

DamageLists == { <<>>, <<Pothole, Unclassed, Unscored>> }

\* A list in the older shape: its second entry is the class name alone, a
\* JSON string where an object is expected.
LegacyDamages == <<Pothole, Str("Potholes")>>

\* Whether a submitted damage entry is a JSON object (a dict, which has
\* .get); the other JSON values carry their kind under k.
IsDict(damage) == "k" \notin DOMAIN damage

(***************************************************************************)
(* Images and their transport strings                                      *)
(*                                                                         *)
(* A pixel buffer is [h, w, marks]: its height, its width and the boxes    *)
(* drawn on it.  A transport string is described by what the codec reads   *)
(* of it: whether it is a string at all, whether it has a data-URL prefix, *)
(* the length of its base64 text, whether b64decode accepts that text and  *)
(* the image container the decoded bytes hold (NoImage: none).             *)
(***************************************************************************)
Image(h, w) == [h |-> h, w |-> w, marks |-> <<>>]

NoImage == Image(0, 0)

Transport(prefix, b64len, b64ok, img) ==
    [kind |-> "str", prefix |-> prefix, b64len |-> b64len, b64ok |-> b64ok, img |-> img]

\* A JSON null sent as image_base64.
NullTransport ==
    [kind |-> "null", prefix |-> FALSE, b64len |-> 0, b64ok |-> FALSE, img |-> NoImage]

PSmall == Transport(TRUE, 2000, TRUE, Image(480, 640))

PWide == Transport(TRUE, 4000, TRUE, Image(600, 801))

PSliver == Transport(TRUE, 4000, TRUE, Image(1602, 1))

\* Base64 text shorter than MinBase64Len, and a 120-byte JPEG (160
\* characters of base64, fewer than MinImageBytes bytes).
PShort == Transport(TRUE, 96, TRUE, Image(8, 8))

PTiny == Transport(FALSE, 160, TRUE, Image(10, 10))

PBadB64 == Transport(TRUE, 2001, FALSE, NoImage)

PNotImage == Transport(FALSE, 2000, TRUE, NoImage)

PEmpty == Transport(FALSE, 0, TRUE, NoImage)

Payloads ==
    { PSmall, PWide, PSliver, PShort, PTiny, PBadB64, PNotImage, PEmpty,
      NullTransport }

\* The number of bytes base64.b64decode yields for text of the given length.
DecodedLen(b64len) == (b64len \div 4) * 3

\* The file uploads/<image_id>.jpg.
UploadPath(image_id) == [dir |-> UPLOAD_FOLDER, name |-> image_id, ext |-> "jpg"]

\* A faulty variant: the path is returned before anything is written to it.
save_base64_image_unwritten(base64_string, image_id, diskOk) ==
    IF base64_string.kind # "str" \/ ~base64_string.b64ok \/ ~diskOk
    THEN [ok |-> FALSE, path |-> UploadPath(image_id), wrote |-> FALSE]
    ELSE [ok |-> TRUE, path |-> UploadPath(image_id), wrote |-> FALSE]

\* save_base64_image: the path written, or None (ok = FALSE) when the
\* argument is no string, b64decode raises, or the file cannot be written.
save_base64_image(base64_string, image_id, diskOk) ==
    IF base64_string.kind # "str" \/ ~base64_string.b64ok \/ ~diskOk
    THEN [ok |-> FALSE, path |-> UploadPath(image_id), wrote |-> FALSE]
    ELSE [ok |-> TRUE, path |-> UploadPath(image_id), wrote |-> TRUE]

\* A faulty variant: the two minimum-length guards are left out.
base64_to_image_unguarded(base64_string) ==
    LET none == [ok |-> FALSE, image |-> NoImage, raised |-> FALSE] IN
    CASE base64_string.kind # "str" -> none
      [] base64_string.b64len = 0 /\ ~base64_string.prefix -> none
      [] ~base64_string.b64ok -> none
      [] base64_string.img = NoImage -> none
      [] base64_string.img.h * base64_string.img.w = 0 -> none
      [] OTHER -> [ok |-> TRUE, image |-> base64_string.img, raised |-> FALSE]

\* The try block of base64_to_image: the value it returns, or the exception
\* one of its calls raises.
base64_to_image_try(base64_string) ==
    LET none == [kind |-> "return", ok |-> FALSE, image |-> NoImage] IN
    CASE base64_string.kind = "null" -> none
      [] base64_string.kind # "str" -> [kind |-> "raise", e |-> "TypeError"]
      [] base64_string.b64len = 0 /\ ~base64_string.prefix -> none
      [] base64_string.b64len < MinBase64Len -> none
      [] ~base64_string.b64ok -> [kind |-> "raise", e |-> "binascii.Error"]
      [] DecodedLen(base64_string.b64len) < MinImageBytes -> none
      [] base64_string.img = NoImage -> [kind |-> "raise", e |-> "UnidentifiedImageError"]
      [] base64_string.img.h * base64_string.img.w = 0 -> none
      [] OTHER -> [kind |-> "return", ok |-> TRUE, image |-> base64_string.img]

\* A faulty variant: no except clause, the exception leaves the function.
base64_to_image_uncaught(base64_string) ==
    LET tried == base64_to_image_try(base64_string) IN
    IF tried.kind = "raise"
    THEN [ok |-> FALSE, image |-> NoImage, raised |-> TRUE]
    ELSE [ok |-> tried.ok, image |-> tried.image, raised |-> FALSE]

\* base64_to_image: the decoded pixel buffer, or None (ok = FALSE), also
\* when the try block raises (except Exception: return None); `raised`
\* tells whether an exception left the function.
base64_to_image(base64_string) ==
    LET tried == base64_to_image_try(base64_string) IN
    IF tried.kind = "raise"
    THEN [ok |-> FALSE, image |-> NoImage, raised |-> FALSE]
    ELSE [ok |-> tried.ok, image |-> tried.image, raised |-> FALSE]

\* A faulty variant: new_w and new_h passed to cv2.resize in the wrong order.
ResizedDimsSwapped(h, w) ==
    IF (IF h > w THEN h ELSE w) > max_size
    THEN IF h > w
         THEN [h |-> (w * max_size) \div h, w |-> max_size]
         ELSE [h |-> max_size, w |-> (h * max_size) \div w]
    ELSE [h |-> h, w |-> w]

\* The size image_to_base64 encodes: unchanged up to max_size, otherwise
\* the larger side becomes max_size and the other int(side * max_size / larger).
ResizedDims(h, w) ==
    IF (IF h > w THEN h ELSE w) > max_size
    THEN IF h > w
         THEN [h |-> max_size, w |-> (w * max_size) \div h]
         ELSE [h |-> (h * max_size) \div w, w |-> max_size]
    ELSE [h |-> h, w |-> w]

\* image_to_base64: the data-URL of the JPEG, or None (ok = FALSE) when the
\* buffer is empty or cv2.resize is given a zero size.
image_to_base64(image) ==
    LET d == ResizedDims(image.h, image.w)
        none == [kind |-> "none", prefix |-> FALSE, img |-> NoImage]
    IN  IF image.h * image.w = 0 \/ d.h = 0 \/ d.w = 0
        THEN none
        ELSE [kind |-> "str", prefix |-> TRUE,
              img |-> [h |-> d.h, w |-> d.w, marks |-> image.marks]]

(***************************************************************************)
(* Detection adapter                                                       *)
(***************************************************************************)
\* int(): truncation towards zero of a / b, b > 0.
Trunc(a, b) == IF a >= 0 THEN a \div b ELSE -((-a) \div b)

\* f"Class_{cls_id}"
GeneratedLabel(cls_id) == "Class_" \o ToString(cls_id)

\* CLASSES[cls_id] if cls_id < len(CLASSES) else f"Class_{cls_id}", with
\* Python's indexing: -1..-4 count from the end, below that IndexError.
ClassName(cls_id) ==
    IF cls_id < Len(CLASSES)
    THEN IF cls_id >= 0 THEN [ok |-> TRUE, name |-> CLASSES[cls_id + 1]]
         ELSE IF cls_id >= -Len(CLASSES)
              THEN [ok |-> TRUE, name |-> CLASSES[Len(CLASSES) + cls_id + 1]]
              ELSE [ok |-> FALSE, name |-> ""]
    ELSE [ok |-> TRUE, name |-> GeneratedLabel(cls_id)]

\* One box as the model returns it: model-space corners, class index,
\* confidence.
Box(x1, y1, x2, y2, cls, conf) ==
    [xyxy |-> <<x1, y1, x2, y2>>, cls |-> cls, conf |-> conf]

\* A faulty variant: x scaled by the height and y by the width.
MapBoxAxesSwapped(box, h_ori, w_ori) ==
    [class |-> ClassName(box.cls).name,
     confidence |-> box.conf,
     bbox |-> << Trunc(box.xyxy[1] * h_ori, ModelSize),
                 Trunc(box.xyxy[2] * w_ori, ModelSize),
                 Trunc(box.xyxy[3] * h_ori, ModelSize),
                 Trunc(box.xyxy[4] * w_ori, ModelSize) >>]

\* The caller-facing detection of one box on an image of w_ori x h_ori.
MapBox(box, h_ori, w_ori) ==
    [class |-> ClassName(box.cls).name,
     confidence |-> box.conf,
     bbox |-> << Trunc(box.xyxy[1] * w_ori, ModelSize),
                 Trunc(box.xyxy[2] * h_ori, ModelSize),
                 Trunc(box.xyxy[3] * w_ori, ModelSize),
                 Trunc(box.xyxy[4] * h_ori, ModelSize) >>]

\* The rectangle and label drawn for one detection.
Mark(det, cls_id) == [bbox |-> det.bbox, color |-> cls_id % 4, label |-> det.class]

\* The loop over the boxes: detections and drawn marks so far, or failed as
\* soon as one box raises.
RECURSIVE ProcessBoxes(_, _, _, _)
ProcessBoxes(boxes, h_ori, w_ori, acc) ==
    IF boxes = <<>> THEN acc
    ELSE LET box == Head(boxes) IN
         IF ~ClassName(box.cls).ok
         THEN [acc EXCEPT !.failed = TRUE]
         ELSE LET det == MapBox(box, h_ori, w_ori) IN
              ProcessBoxes(Tail(boxes), h_ori, w_ori,
                           [failed |-> FALSE,
                            detections |-> Append(acc.detections, det),
                            marks |-> Append(acc.marks, Mark(det, box.cls))])

\* What one model.predict call does: raise, or return boxes.
Predicted(boxes) == [raises |-> FALSE, boxes |-> boxes]

PredictRaises == [raises |-> TRUE, boxes |-> <<>>]

\* Two boxes, the second with a class index outside CLASSES.
TwoBoxes == Predicted(<<Box(64, 128, 320, 640, 3, 85), Box(10, 20, 30, 40, 7, 30)>>)

\* Two boxes, the second with a class index that makes CLASSES[cls_id] raise.
BadSecondBox == Predicted(<<Box(64, 128, 320, 640, 3, 85), Box(1, 1, 2, 2, -5, 40)>>)

ModelOutcomes == { PredictRaises, Predicted(<<>>), TwoBoxes, BadSecondBox }

\* A faulty variant: annotated_image is the input itself, not a copy of it,
\* so every rectangle is drawn on the caller's buffer.
run_yolo_inference_in_place(image, handle, outcome) ==
    IF handle = "absent"
    THEN [image |-> image, detections |-> <<>>, invoked |-> FALSE, input |-> image]
    ELSE IF outcome.raises
         THEN [image |-> image, detections |-> <<>>, invoked |-> TRUE, input |-> image]
         ELSE LET p == ProcessBoxes(outcome.boxes, image.h, image.w,
                                    [failed |-> FALSE, detections |-> <<>>,
                                     marks |-> <<>>])
                  drawn == [image EXCEPT !.marks = p.marks]
              IN  IF p.failed
                  THEN [image |-> drawn, detections |-> <<>>, invoked |-> TRUE,
                        input |-> drawn]
                  ELSE [image |-> drawn, detections |-> p.detections, invoked |-> TRUE,
                        input |-> drawn]

\* run_yolo_inference(image, confidence_threshold): the annotated image and
\* the detections; `invoked` records whether model.predict was called and
\* `input` is the caller's buffer as the call leaves it (the rectangles are
\* drawn on image.copy()).
run_yolo_inference(image, handle, outcome) ==
    IF handle = "absent"
    THEN [image |-> image, detections |-> <<>>, invoked |-> FALSE, input |-> image]
    ELSE IF outcome.raises
         THEN [image |-> image, detections |-> <<>>, invoked |-> TRUE, input |-> image]
         ELSE LET p == ProcessBoxes(outcome.boxes, image.h, image.w,
                                    [failed |-> FALSE, detections |-> <<>>,
                                     marks |-> <<>>])
              IN  IF p.failed
                  THEN [image |-> image, detections |-> <<>>, invoked |-> TRUE,
                        input |-> image]
                  ELSE [image |-> [image EXCEPT !.marks = p.marks],
                        detections |-> p.detections, invoked |-> TRUE,
                        input |-> image]

(***************************************************************************)
(* State                                                                   *)
(***************************************************************************)
VARIABLES
    phase,            \* "start" before __main__ has run, then "serving"
    model,            \* the global model handle: "absent" (None) or "loaded"
    torch_load,       \* torch.load: "original" or "patched"
    rows,             \* the detections table, in insertion (rowid) order
    sqlite_sequence,  \* AUTOINCREMENT: the largest id ever assigned
    files,            \* the files that exist under uploads/
    last,             \* the last request handled, with its response
    threads           \* the request each server thread is handling, and where

vars == <<phase, model, torch_load, rows, sqlite_sequence, files, last, threads>>

\* What a request may find of its collaborators: whether the uploads
\* directory can be written and whether the database answers (a locked or
\* unreadable database makes cursor.execute raise).
EnvOk == [disk |-> TRUE, db |-> TRUE]

DiskDown == [disk |-> FALSE, db |-> TRUE]

DbDown == [disk |-> TRUE, db |-> FALSE]

Envs == {EnvOk, DiskDown, DbDown}

\* The store as a handler sees it.
Store == [rows |-> rows, seq |-> sqlite_sequence, files |-> files]

\* A faulty variant: the identifier is computed once, not per request.
uuid4_once(st) == 1

\* str(uuid.uuid4()): a token not in use.
uuid4(st) ==
    LET used == {f.name : f \in st.files} \cup {st.rows[i].image_id : i \in 1..Len(st.rows)}
    IN  CHOOSE n \in 1..(Cardinality(used) + 1) :
            n \notin used /\ \A m \in 1..(n - 1) : m \in used

(***************************************************************************)
(* Persistence layer                                                       *)
(***************************************************************************)
\* A faulty variant: latitude and longitude bound to each other's column.
InsertRowSwapped(tbl, seq, image_id, image_path, latitude, longitude, damages, scores, now) ==
    Append(tbl, [id |-> seq + 1,
                 image_id |-> image_id,
                 image_path |-> image_path,
                 latitude |-> longitude,
                 longitude |-> latitude,
                 detected_damages |-> damages,
                 timestamp |-> now,
                 confidence_scores |-> scores])

\* A faulty variant: INSERT OR REPLACE that takes the place of the newest row.
InsertRowOrReplace(tbl, seq, image_id, image_path, latitude, longitude, damages, scores, now) ==
    Append(IF tbl = <<>> THEN tbl ELSE SubSeq(tbl, 1, Len(tbl) - 1),
           [id |-> seq + 1,
            image_id |-> image_id,
            image_path |-> image_path,
            latitude |-> latitude,
            longitude |-> longitude,
            detected_damages |-> damages,
            timestamp |-> now,
            confidence_scores |-> scores])

\* INSERT INTO detections (...) VALUES (...): the id is assigned by
\* AUTOINCREMENT, the timestamp by DEFAULT CURRENT_TIMESTAMP.
InsertRow(tbl, seq, image_id, image_path, latitude, longitude, damages, scores, now) ==
    Append(tbl, [id |-> seq + 1,
                 image_id |-> image_id,
                 image_path |-> image_path,
                 latitude |-> latitude,
                 longitude |-> longitude,
                 detected_damages |-> damages,
                 timestamp |-> now,
                 confidence_scores |-> scores])

\* A faulty variant: ORDER BY timestamp ASC.
RECURSIVE InsertAsc(_, _)
InsertAsc(sorted, row) ==
    IF sorted = <<>> THEN <<row>>
    ELSE IF Head(sorted).timestamp <= row.timestamp
         THEN <<Head(sorted)>> \o InsertAsc(Tail(sorted), row)
         ELSE <<row>> \o sorted

\* Insert one row into a sequence already ordered by timestamp descending,
\* after the rows with a timestamp at least as large.
RECURSIVE InsertDesc(_, _)
InsertDesc(sorted, row) ==
    IF sorted = <<>> THEN <<row>>
    ELSE IF Head(sorted).timestamp >= row.timestamp
         THEN <<Head(sorted)>> \o InsertDesc(Tail(sorted), row)
         ELSE <<row>> \o sorted

\* SELECT ... FROM detections ORDER BY timestamp DESC.
RECURSIVE OrderByTimestampDesc(_)
OrderByTimestampDesc(tbl) ==
    IF tbl = <<>> THEN <<>>
    ELSE InsertDesc(OrderByTimestampDesc(SubSeq(tbl, 1, Len(tbl) - 1)), tbl[Len(tbl)])

\* A faulty variant: the WHERE clause left out.
SelectByIdNoWhere(tbl, param) == tbl

\* SELECT ... WHERE id = ?: the parameter is the text of the URL; the
\* INTEGER column compares it as a number when it is a numeral and matches
\* nothing otherwise.
SelectById(tbl, param) ==
    SelectSeq(tbl, LAMBDA r : param.k = "num" /\ r.id = param.v)

(***************************************************************************)
(* Response envelopes                                                      *)
(***************************************************************************)
Response(code, body) == [code |-> code, body |-> body]

ErrorBody(message) == [status |-> "error", message |-> message]

ExceptionBody(message, e) == [status |-> "error", message |-> message, error |-> e]

\* f"Missing required field: {field}"
MissingMessage(field) ==
    CASE field = "image_base64" -> "Missing required field: image_base64"
      [] field = "latitude" -> "Missing required field: latitude"
      [] field = "longitude" -> "Missing required field: longitude"
      [] OTHER -> "Missing required field: detected_damages"

\* What a handler leaves behind: its response, the store after it, whether
\* it called model.predict, and the collaborator calls it made, in order.
Outcome(resp, st, invoked, calls) ==
    [resp |-> resp, st |-> st, invoked |-> invoked, calls |-> calls]

(***************************************************************************)
(* POST /api/detect                                                        *)
(***************************************************************************)
required_fields == <<"image_base64", "latitude", "longitude", "detected_damages">>

\* A faulty variant: the loop keeps going and the last absent field is named.
FirstMissingLast(data) ==
    LET absent == SelectSeq(required_fields, LAMBDA f : f \notin DOMAIN data)
    IN  IF absent = <<>> THEN "" ELSE absent[Len(absent)]

\* The first required field absent from the body, "" when none is.
FirstMissing(data) ==
    LET absent == SelectSeq(required_fields, LAMBDA f : f \notin DOMAIN data)
    IN  IF absent = <<>> THEN "" ELSE Head(absent)

\* A faulty variant: only the damages that carry a confidence contribute a
\* score.
ConfidenceScoresOfScored(damages) ==
    LET scored == SelectSeq(damages, LAMBDA damage : "confidence" \in DOMAIN damage)
    IN  [i \in 1..Len(scored) |-> scored[i].confidence]

\* [damage.get("confidence", 0.0) for damage in detected_damages]
ConfidenceScores(damages) ==
    [i \in 1..Len(damages) |->
        IF "confidence" \in DOMAIN damages[i] THEN damages[i].confidence ELSE 0]

detect_damage(data, env, now, st) ==
    IF FirstMissing(data) # ""
    THEN Outcome(Response(400, ErrorBody(MissingMessage(FirstMissing(data)))), st, FALSE,
                 <<>>)
    ELSE
    LET image_id == uuid4(st)
        saved == save_base64_image(data.image_base64, image_id, env.disk)
        st1 == [st EXCEPT !.files = IF saved.wrote THEN @ \cup {saved.path} ELSE @]
        detected_damages == data.detected_damages
        latitude == ToFloat(data.latitude)
        longitude == ToFloat(data.longitude)
    IN  IF ~saved.ok
        THEN Outcome(Response(500, ErrorBody("Failed to save image")), st1, FALSE,
                     <<"save_base64_image">>)
        ELSE IF \E i \in 1..Len(detected_damages) : ~IsDict(detected_damages[i])
        THEN Outcome(Response(500, ExceptionBody("Internal server error", "get")),
                     st1, FALSE, <<"save_base64_image">>)
        ELSE IF ~latitude.ok \/ ~longitude.ok
        THEN Outcome(Response(500, ExceptionBody("Internal server error", "float")),
                     st1, FALSE, <<"save_base64_image">>)
        ELSE IF ~env.db
        THEN Outcome(Response(500, ExceptionBody("Internal server error", "sqlite3")),
                     st1, FALSE, <<"save_base64_image", "INSERT">>)
        ELSE Outcome(
                Response(200, [status |-> "success",
                               message |-> "Detection saved successfully",
                               detection_id |-> st.seq + 1,
                               image_id |-> image_id,
                               damages_count |-> Len(detected_damages)]),
                [st1 EXCEPT
                    !.rows = InsertRow(@, st.seq, image_id, saved.path,
                                       latitude.v, longitude.v,
                                       DumpDamageList(detected_damages),
                                       DumpNumList(ConfidenceScores(detected_damages)),
                                       now),
                    !.seq = @ + 1],
                FALSE, <<"save_base64_image", "INSERT">>)

(***************************************************************************)
(* GET /api/detections, /api/detections/<id>, /api/stats                   *)
(***************************************************************************)
\* The dict get_detections builds of one row.
ListedDetection(row) ==
    [id |-> row.id,
     image_id |-> row.image_id,
     latitude |-> row.latitude,
     longitude |-> row.longitude,
     detected_damages |-> json_loads(row.detected_damages),
     confidence_scores |-> json_loads(row.confidence_scores),
     timestamp |-> row.timestamp]

get_detections(env, st) ==
    IF ~env.db
    THEN Response(500, ExceptionBody("Failed to fetch detections", "sqlite3"))
    ELSE LET fetched == OrderByTimestampDesc(st.rows)
             detections == [i \in 1..Len(fetched) |-> ListedDetection(fetched[i])]
         IN  Response(200, [status |-> "success",
                            detections |-> detections,
                            count |-> Len(detections)])

\* The dict get_detection builds of the row found.
Detection(row) ==
    [id |-> row.id,
     image_id |-> row.image_id,
     image_path |-> row.image_path,
     latitude |-> row.latitude,
     longitude |-> row.longitude,
     detected_damages |-> json_loads(row.detected_damages),
     confidence_scores |-> json_loads(row.confidence_scores),
     timestamp |-> row.timestamp]

get_detection(detection_id, env, st) ==
    IF ~env.db
    THEN Response(500, ExceptionBody("Failed to fetch detection", "sqlite3"))
    ELSE LET found == SelectById(st.rows, detection_id)
         IN  IF found = <<>>
             THEN Response(404, ErrorBody("Detection not found"))
             ELSE Response(200, [status |-> "success", detection |-> Detection(found[1])])

\* A faulty variant: a damage without a "class" key is skipped.
RECURSIVE CountClassesSkipsUnclassed(_, _)
CountClassesSkipsUnclassed(damages, damage_types) ==
    IF damages = <<>> THEN damage_types
    ELSE LET damage == Head(damages)
             seen == IF damage.class \in DOMAIN damage_types
                     THEN damage_types[damage.class] ELSE 0
         IN  IF "class" \notin DOMAIN damage
             THEN CountClassesSkipsUnclassed(Tail(damages), damage_types)
             ELSE CountClassesSkipsUnclassed(Tail(damages),
                        (damage.class :> (seen + 1)) @@ damage_types)

\* damage_types[damage_class] = damage_types.get(damage_class, 0) + 1 over
\* one row's damages.
RECURSIVE CountClasses(_, _)
CountClasses(damages, damage_types) ==
    IF damages = <<>> THEN damage_types
    ELSE LET damage == Head(damages)
             damage_class == IF "class" \in DOMAIN damage THEN damage.class ELSE "Unknown"
             seen == IF damage_class \in DOMAIN damage_types
                     THEN damage_types[damage_class] ELSE 0
         IN  CountClasses(Tail(damages), (damage_class :> (seen + 1)) @@ damage_types)

\* The loop over every row of SELECT detected_damages FROM detections.
RECURSIVE DamageTypeDistribution(_, _)
DamageTypeDistribution(tbl, damage_types) ==
    IF tbl = <<>> THEN damage_types
    ELSE DamageTypeDistribution(Tail(tbl),
            CountClasses(json_loads(Head(tbl).detected_damages), damage_types))

\* SELECT COUNT(*) FROM detections.
CountRows(tbl) == Len(tbl)

get_stats(env, st) ==
    IF ~env.db
    THEN Response(500, ExceptionBody("Failed to fetch statistics", "sqlite3"))
    ELSE Response(200, [status |-> "success",
                        stats |-> [total_detections |-> CountRows(st.rows),
                                   damage_type_distribution |->
                                       DamageTypeDistribution(st.rows, <<>>)]])

(***************************************************************************)
(* GET /, /dashboard, /api/image/<id>                                      *)
(***************************************************************************)
home == Response(200, [status |-> "success",
                       message |-> "Road Damage Detection Flask Server is running"])

\* The entry the dashboard shows of one row.
DashboardDetection(row) ==
    LET detected_damages == json_loads(row.detected_damages) IN
    [id |-> row.id,
     timestamp |-> row.timestamp,
     latitude |-> row.latitude,
     longitude |-> row.longitude,
     image_url |-> row.id,
     detected_damages |->
        [i \in 1..Len(detected_damages) |->
            [class |-> IF "class" \in DOMAIN detected_damages[i]
                       THEN detected_damages[i].class ELSE "Unknown",
             confidence |-> IF "confidence" \in DOMAIN detected_damages[i]
                            THEN detected_damages[i].confidence ELSE 50]]]

\* damage_type_distribution[damage_class] =
\*     damage_type_distribution.get(damage_class, 0) + 1
\* for each damage_class the dashboard has put on one row's damage_list.
RECURSIVE DashboardCount(_, _)
DashboardCount(damage_list, damage_type_distribution) ==
    IF damage_list = <<>> THEN damage_type_distribution
    ELSE LET damage_class == Head(damage_list).class
             seen == IF damage_class \in DOMAIN damage_type_distribution
                     THEN damage_type_distribution[damage_class] ELSE 0
         IN  DashboardCount(Tail(damage_list),
                            (damage_class :> (seen + 1)) @@ damage_type_distribution)

\* The dashboard's distribution over the rows in the order it fetched them.
RECURSIVE DashboardDistribution(_, _)
DashboardDistribution(detections, damage_type_distribution) ==
    IF detections = <<>> THEN damage_type_distribution
    ELSE DashboardDistribution(Tail(detections),
            DashboardCount(Head(detections).detected_damages, damage_type_distribution))

\* A faulty variant: the query has LIMIT 1, the newest detection only.
dashboard_newest_only(env, st) ==
    IF ~env.db
    THEN Response(500, [error |-> "sqlite3"])
    ELSE LET ordered == OrderByTimestampDesc(st.rows)
             fetched == SubSeq(ordered, 1, IF ordered = <<>> THEN 0 ELSE 1)
             detections == [i \in 1..Len(fetched) |-> DashboardDetection(fetched[i])]
         IN  Response(200, [template |-> "detections.html",
                            detections |-> detections,
                            stats |-> [total_detections |-> Len(detections),
                                       damage_type_distribution |->
                                           DashboardDistribution(detections, <<>>)]])

dashboard(env, st) ==
    IF ~env.db
    THEN Response(500, [error |-> "sqlite3"])
    ELSE LET fetched == OrderByTimestampDesc(st.rows)
             detections == [i \in 1..Len(fetched) |-> DashboardDetection(fetched[i])]
         IN  Response(200, [template |-> "detections.html",
                            detections |-> detections,
                            stats |-> [total_detections |-> Len(detections),
                                       damage_type_distribution |->
                                           DashboardDistribution(detections, <<>>)]])

\* A faulty variant: the file is sent without looking whether it exists.
get_detection_image_unchecked(detection_id, env, st) ==
    IF ~env.db
    THEN Response(500, [error |-> "sqlite3"])
    ELSE LET result == SelectSeq(st.rows, LAMBDA r : r.id = detection_id)
         IN  IF result = <<>>
             THEN Response(404, [error |-> "Detection not found"])
             ELSE Response(200, [file |-> result[1].image_path,
                                 mimetype |-> "image/jpeg"])

get_detection_image(detection_id, env, st) ==
    IF ~env.db
    THEN Response(500, [error |-> "sqlite3"])
    ELSE LET result == SelectSeq(st.rows, LAMBDA r : r.id = detection_id)
         IN  IF result = <<>>
             THEN Response(404, [error |-> "Detection not found"])
             ELSE IF result[1].image_path \in st.files
                  THEN Response(200, [file |-> result[1].image_path,
                                      mimetype |-> "image/jpeg"])
                  ELSE Response(404, [error |-> "Image file not found"])

(***************************************************************************)
(* POST /api/infer                                                         *)
(***************************************************************************)
\* data.get(key): None when the key is absent.
Get(data, key) == IF key \in DOMAIN data THEN data[key] ELSE Null

\* data.get("save_result", False)
SaveResult(data) == IF "save_result" \in DOMAIN data THEN data.save_result ELSE Bool(FALSE)

\* The guard of the optional save: `if save_result and detections:` and
\* `if latitude is not None and longitude is not None:`.
WantsSave(data, detections) ==
    /\ Truthy(SaveResult(data))
    /\ detections # <<>>
    /\ Get(data, "latitude") # Null
    /\ Get(data, "longitude") # Null

infer_damage(data, env, now, outcome, handle, st) ==
    IF "image_base64" \notin DOMAIN data
    THEN Outcome(Response(400, ErrorBody(MissingMessage("image_base64"))), st, FALSE,
                 <<>>)
    ELSE
    LET decoded == base64_to_image(data.image_base64) IN
    IF ~decoded.ok
    THEN Outcome(Response(400, ErrorBody("Failed to decode image")), st, FALSE,
                 <<"base64_to_image">>)
    ELSE
    LET inferred == run_yolo_inference(decoded.image, handle, outcome)
        annotated_image_base64 == image_to_base64(inferred.image)
        detections == inferred.detections
        result == [status |-> "success",
                   annotated_image_base64 |-> annotated_image_base64,
                   detections |-> detections,
                   detection_count |-> Len(detections)]
        called == IF inferred.invoked
                  THEN <<"base64_to_image", "model.predict", "image_to_base64">>
                  ELSE <<"base64_to_image", "image_to_base64">>
    IN
    IF annotated_image_base64.kind = "none"
    THEN Outcome(Response(500, ErrorBody("Failed to encode annotated image")),
                 st, inferred.invoked, called)
    ELSE IF ~WantsSave(data, detections)
    THEN Outcome(Response(200, result), st, inferred.invoked, called)
    ELSE
    LET image_id == uuid4(st)
        saved == save_base64_image(data.image_base64, image_id, env.disk)
        st1 == [st EXCEPT !.files = IF saved.wrote THEN @ \cup {saved.path} ELSE @]
        latitude == ToFloat(data.latitude)
        longitude == ToFloat(data.longitude)
    IN  IF ~saved.ok
        THEN Outcome(Response(200, result), st1, inferred.invoked,
                     Append(called, "save_base64_image"))
        ELSE IF ~latitude.ok \/ ~longitude.ok
        THEN Outcome(Response(500, ExceptionBody("Inference failed", "float")),
                     st1, inferred.invoked, Append(called, "save_base64_image"))
        ELSE IF ~env.db
        THEN Outcome(Response(500, ExceptionBody("Inference failed", "sqlite3")),
                     st1, inferred.invoked,
                     called \o <<"save_base64_image", "INSERT">>)
        ELSE Outcome(
                Response(200, [status |-> "success",
                               annotated_image_base64 |-> annotated_image_base64,
                               detections |-> detections,
                               detection_count |-> Len(detections),
                               saved |-> TRUE,
                               detection_id |-> st.seq + 1,
                               image_id |-> image_id]),
                [st1 EXCEPT
                    !.rows = InsertRow(@, st.seq, image_id, saved.path,
                                       latitude.v, longitude.v,
                                       DumpDamageList(detections),
                                       DumpNumList(ConfidenceScores(detections)),
                                       now),
                    !.seq = @ + 1],
                inferred.invoked, called \o <<"save_base64_image", "INSERT">>)

(***************************************************************************)
(* Process start: init_db() and load_yolo_model()                          *)
(***************************************************************************)
\* What load_yolo_model finds: whether MODEL_PATH exists, whether its
\* absolute path exists when it is looked at a moment later, and whether
\* each YOLO(...) call raises.
LoadEnvs ==
    [exists : BOOLEAN, absExists : BOOLEAN, firstRaises : BOOLEAN, secondRaises : BOOLEAN]

\* What load_yolo_model leaves: the value returned, the handle, torch.load
\* and the YOLO(...) calls made.
Loaded(ret, calls) ==
    [ret |-> ret, model |-> IF ret THEN "loaded" ELSE "absent",
     torch_load |-> "original", calls |-> calls]

\* A faulty variant: torch.load is put back after the second attempt only
\* when that attempt succeeds (no finally).
load_yolo_model_no_finally(e) ==
    IF e.exists
    THEN IF ~e.firstRaises
         THEN Loaded(TRUE, <<"YOLO">>)
         ELSE IF ~e.secondRaises
              THEN Loaded(TRUE, <<"YOLO", "YOLO">>)
              ELSE [Loaded(FALSE, <<"YOLO", "YOLO">>) EXCEPT !.torch_load = "patched"]
    ELSE IF e.absExists
         THEN Loaded(~e.firstRaises, <<"YOLO">>)
         ELSE Loaded(FALSE, <<>>)

\* A faulty variant: the load from the absolute path is tried again with
\* torch.load patched when it raises.
load_yolo_model_retry_abs(e) ==
    IF e.exists
    THEN IF ~e.firstRaises
         THEN Loaded(TRUE, <<"YOLO">>)
         ELSE Loaded(~e.secondRaises, <<"YOLO", "YOLO">>)
    ELSE IF e.absExists
         THEN IF ~e.firstRaises
              THEN Loaded(TRUE, <<"YOLO">>)
              ELSE Loaded(~e.secondRaises, <<"YOLO", "YOLO">>)
         ELSE Loaded(FALSE, <<>>)

\* load_yolo_model.  With the file at MODEL_PATH: YOLO(MODEL_PATH), and when
\* that raises a second YOLO(MODEL_PATH) with torch.load patched, which the
\* finally clause puts back whether or not the second attempt raises.
\* Without the file: YOLO(abs_path) when the absolute path exists.  An
\* exception that gets out of these is caught and False returned.
load_yolo_model(e) ==
    IF e.exists
    THEN IF ~e.firstRaises
         THEN Loaded(TRUE, <<"YOLO">>)
         ELSE IF ~e.secondRaises
              THEN Loaded(TRUE, <<"YOLO", "YOLO">>)
              ELSE Loaded(FALSE, <<"YOLO", "YOLO">>)
    ELSE IF e.absExists
         THEN IF ~e.firstRaises
              THEN Loaded(TRUE, <<"YOLO">>)
              ELSE Loaded(FALSE, <<"YOLO">>)
         ELSE Loaded(FALSE, <<>>)

(***************************************************************************)
(* Requests: a JSON body together with what the handler will find of its   *)
(* collaborators while it serves the request.                              *)
(***************************************************************************)
Restrict(f, keys) == [key \in keys |-> f[key]]

\* The payload of the spec's scenario: a 120-byte JPEG, New York, a pothole
\* first.
FullDetect ==
    [image_base64 |-> PTiny, latitude |-> Num(40), longitude |-> Num(-74),
     detected_damages |-> <<Pothole, Unclassed, Unscored>>]

\* Values a client may send as latitude or longitude besides a number.
BadCoordinates == {Str("north"), Null}

DetectBodies ==
    {Restrict(FullDetect, keys) : keys \in SUBSET DOMAIN FullDetect}
    \cup {[FullDetect EXCEPT !.image_base64 = p] : p \in {PSmall, PBadB64, PEmpty, NullTransport}}
    \cup {[FullDetect EXCEPT !.latitude = c] : c \in BadCoordinates}
    \cup {[FullDetect EXCEPT !.longitude = c] : c \in BadCoordinates}
    \cup {[FullDetect EXCEPT !.detected_damages = d] : d \in DamageLists \cup {LegacyDamages}}

DetectRequests ==
    {[data |-> d, env |-> EnvOk] : d \in DetectBodies}
    \cup {[data |-> FullDetect, env |-> e] : e \in Envs}

FullInfer ==
    [image_base64 |-> PSmall, confidence_threshold |-> Num(25),
     save_result |-> Bool(TRUE), latitude |-> Num(40), longitude |-> Num(-74)]

\* Bodies that ask for no save: no image, or an image alone.
PlainInferBodies ==
    {<<>>, Restrict(FullInfer, {"save_result", "latitude", "longitude"})}
    \cup {[image_base64 |-> p] : p \in Payloads}

\* Bodies around the saving request: one key dropped or one value changed.
SavingInferBodies ==
    {Restrict(FullInfer, DOMAIN FullInfer \ {key}) :
        key \in {"confidence_threshold", "save_result", "latitude", "longitude"}}
    \cup {[FullInfer EXCEPT !.save_result = v] :
            v \in {Bool(TRUE), Bool(FALSE), Num(1), Str(""), Null}}
    \cup {[FullInfer EXCEPT !.latitude = c] : c \in BadCoordinates}
    \cup {[FullInfer EXCEPT !.longitude = c] : c \in BadCoordinates}

InferRequests ==
    {[data |-> d, env |-> EnvOk, outcome |-> o] :
        d \in {[image_base64 |-> PSmall], FullInfer}, o \in ModelOutcomes}
    \cup {[data |-> d, env |-> EnvOk, outcome |-> TwoBoxes] :
            d \in PlainInferBodies \cup SavingInferBodies}
    \cup {[data |-> FullInfer, env |-> e, outcome |-> TwoBoxes] : e \in Envs}
    \cup {[data |-> [image_base64 |-> p], env |-> EnvOk, outcome |-> PredictRaises] :
            p \in {PWide, PSliver}}

\* The <detection_id> of GET /api/detections/<detection_id>: any text.
IdParams == {Num(1), Num(MaxSaves), Num(999999), Str("abc")}

\* The <int:detection_id> of GET /api/image/<int:detection_id>.
ImageIds == {1, MaxSaves, MaxSaves + 1}

\* A GET finds the database answering or down.
ReadEnvs == {EnvOk, DbDown}

GetDetectionRequests ==
    {[id |-> p, env |-> EnvOk] : p \in IdParams} \cup {[id |-> Num(1), env |-> DbDown]}

GetImageRequests ==
    {[id |-> n, env |-> EnvOk] : n \in ImageIds} \cup {[id |-> 1, env |-> DbDown]}

(***************************************************************************)
(* Init and the actions: process start, then one action per route          *)
(***************************************************************************)
\* The threads of the server (app.run serves each request on a thread of
\* its own) that the concurrent specification lets run at once.
MaxThreads == 2

Threads == 1..MaxThreads

\* A thread with no request.
Idle == [pc |-> "idle"]

Init ==
    /\ phase = "start"
    /\ model = "absent"
    /\ torch_load = "original"
    /\ rows = <<>>
    /\ sqlite_sequence = 0
    /\ files = {}
    /\ last = [op |-> "none"]
    /\ threads = [t \in Threads |-> Idle]

\* __main__: init_db(), load_yolo_model(), app.run().
Main ==
    /\ phase = "start"
    /\ \E e \in LoadEnvs :
         LET loaded == load_yolo_model(e) IN
         /\ model' = loaded.model
         /\ torch_load' = loaded.torch_load
         /\ last' = [op |-> "main", req |-> e, ret |-> loaded.ret,
                      calls |-> loaded.calls]
    /\ phase' = "serving"
    /\ UNCHANGED <<rows, sqlite_sequence, files, threads>>

\* A handler that reads the store and changes nothing.
Reads(op, req, env, resp) ==
    /\ last' = [op |-> op, req |-> req, env |-> env, resp |-> resp,
                pre |-> Store, invoked |-> FALSE]
    /\ UNCHANGED <<phase, model, torch_load, rows, sqlite_sequence, files, threads>>

\* A handler that may write the store.
Writes(op, req, env, outcome, out) ==
    /\ Cardinality(out.st.files) <= MaxSaves
    /\ rows' = out.st.rows
    /\ sqlite_sequence' = out.st.seq
    /\ files' = out.st.files
    /\ last' = [op |-> op, req |-> req, env |-> env, outcome |-> outcome,
                resp |-> out.resp, pre |-> Store, invoked |-> out.invoked,
                calls |-> out.calls]
    /\ UNCHANGED <<phase, model, torch_load, threads>>

\* The clock readings that matter to a request: all of them when it
\* inserts a row, one otherwise (nothing else reads the clock).
ClockReads(out) == IF Len(out.st.rows) > Len(rows) THEN Times ELSE {1}

Home ==
    /\ phase = "serving"
    /\ Reads("home", <<>>, EnvOk, home)

Dashboard ==
    /\ phase = "serving"
    /\ \E env \in ReadEnvs : Reads("dashboard", <<>>, env, dashboard(env, Store))

GetDetectionImage ==
    /\ phase = "serving"
    /\ \E req \in GetImageRequests :
         Reads("get_detection_image", req.id, req.env,
               get_detection_image(req.id, req.env, Store))

\* The collaborators a POST /api/detect consults: none when validation fails.
DetectEnv(req) == IF FirstMissing(req.data) # "" THEN EnvOk ELSE req.env

DetectDamage ==
    /\ phase = "serving"
    /\ \E req \in DetectRequests :
         \E now \in ClockReads(detect_damage(req.data, DetectEnv(req), 1, Store)) :
            Writes("detect_damage", req.data, DetectEnv(req), PredictRaises,
                   detect_damage(req.data, DetectEnv(req), now, Store))

\* What model.predict does in a POST /api/infer, when it is called at all.
InferOutcome(req) ==
    IF "image_base64" \in DOMAIN req.data /\ base64_to_image(req.data.image_base64).ok
       /\ model = "loaded"
    THEN req.outcome ELSE PredictRaises

InferDamage ==
    /\ phase = "serving"
    /\ \E req \in InferRequests :
         \E now \in ClockReads(infer_damage(req.data, req.env, 1, InferOutcome(req),
                                            model, Store)) :
            Writes("infer_damage", req.data, req.env, InferOutcome(req),
                   infer_damage(req.data, req.env, now, InferOutcome(req), model, Store))

GetDetections ==
    /\ phase = "serving"
    /\ \E env \in ReadEnvs :
         Reads("get_detections", <<>>, env, get_detections(env, Store))

GetDetection ==
    /\ phase = "serving"
    /\ \E req \in GetDetectionRequests :
         Reads("get_detection", req.id, req.env, get_detection(req.id, req.env, Store))

GetStats ==
    /\ phase = "serving"
    /\ \E env \in ReadEnvs : Reads("get_stats", <<>>, env, get_stats(env, Store))

Next ==
    \/ Main
    \/ Home
    \/ Dashboard
    \/ GetDetectionImage
    \/ DetectDamage
    \/ InferDamage
    \/ GetDetections
    \/ GetDetection
    \/ GetStats

Spec == Init /\ [][Next]_vars

(***************************************************************************)
(* The image store under outside cleanup: the service never removes a file *)
(* of uploads/, but whoever administers the host may, and GET /api/image   *)
(* looks whether the file is still there.                                  *)
(***************************************************************************)
\* A file of uploads/ is removed from outside the service.
ExternalCleanup ==
    /\ phase = "serving"
    /\ \E f \in files :
         /\ files' = files \ {f}
         /\ last' = [op |-> "cleanup", req |-> f]
    /\ UNCHANGED <<phase, model, torch_load, rows, sqlite_sequence, threads>>

\* POST /api/detect with the full payload, while the table has room.
SaveDetection ==
    /\ phase = "serving"
    /\ Len(rows) < MaxSaves
    /\ \E now \in Times :
         Writes("detect_damage", FullDetect, EnvOk, PredictRaises,
                detect_damage(FullDetect, EnvOk, now, Store))

NextImages ==
    \/ Main
    \/ SaveDetection
    \/ GetDetectionImage
    \/ ExternalCleanup

SpecImages == Init /\ [][NextImages]_vars

(***************************************************************************)
(* Concurrent saves: each thread runs one saving request in the steps the  *)
(* handler takes, interleaved with the steps of the other threads.  Each   *)
(* request has a connection of its own; SQLite lets one connection write   *)
(* at a time, from its INSERT to its commit.                               *)
(***************************************************************************)
\* The requests the threads serve.
ConcurrentRequests ==
    {[op |-> "detect_damage", data |-> d] :
        d \in {FullDetect, [FullDetect EXCEPT !.detected_damages = <<>>],
               Restrict(FullDetect, {"image_base64", "latitude"})}}
    \cup {[op |-> "infer_damage", data |-> FullInfer]}

\* What the handler would do with the request if it ran alone from here.
Alone(req) ==
    IF req.op = "detect_damage"
    THEN detect_damage(req.data, EnvOk, 1, Store)
    ELSE infer_damage(req.data, EnvOk, 1, TwoBoxes, model, Store)

\* A faulty variant: the id is read from the table when the response is
\* built (SELECT MAX(id)) instead of from the request's own cursor.
max_id(cursor, seq) == seq

\* cursor.lastrowid: the rowid of the last INSERT made through this cursor.
cursor_lastrowid(cursor, seq) == cursor.lastrowid

\* The handler up to and including save_base64_image; a request that
\* inserts nothing is answered here.
Begin(t) ==
    /\ phase = "serving"
    /\ threads[t] = Idle
    /\ \E req \in ConcurrentRequests :
         LET out == Alone(req) IN
         /\ files' = out.st.files
         /\ threads' = [threads EXCEPT ![t] =
                IF Len(out.st.rows) > Len(rows)
                THEN [pc |-> "execute", req |-> req, resp |-> out.resp,
                      row |-> out.st.rows[Len(out.st.rows)], lastrowid |-> 0]
                ELSE [pc |-> "done", req |-> req, resp |-> out.resp]]
    /\ last' = [op |-> "concurrent"]
    /\ UNCHANGED <<phase, model, torch_load, rows, sqlite_sequence>>

\* sqlite3.connect and cursor.execute(INSERT ...): waits while another
\* connection has an INSERT that is not committed; AUTOINCREMENT assigns
\* the id and the cursor keeps it.
Execute(t) ==
    /\ threads[t].pc = "execute"
    /\ \A u \in Threads : threads[u].pc # "commit"
    /\ \E now \in Times :
         threads' = [threads EXCEPT ![t] =
            [pc |-> "commit", req |-> @.req, resp |-> @.resp,
             row |-> [@.row EXCEPT !.timestamp = now],
             lastrowid |-> sqlite_sequence + 1]]
    /\ last' = [op |-> "concurrent"]
    /\ UNCHANGED <<phase, model, torch_load, rows, sqlite_sequence, files>>

\* conn.commit(): the row becomes part of the table.
Commit(t) ==
    /\ threads[t].pc = "commit"
    /\ LET row == threads[t].row IN
       rows' = InsertRow(rows, sqlite_sequence, row.image_id, row.image_path,
                         row.latitude, row.longitude, row.detected_damages,
                         row.confidence_scores, row.timestamp)
    /\ sqlite_sequence' = sqlite_sequence + 1
    /\ threads' = [threads EXCEPT ![t].pc = "respond"]
    /\ last' = [op |-> "concurrent"]
    /\ UNCHANGED <<phase, model, torch_load, files>>

\* detection_id = cursor.lastrowid, conn.close() and the 200 response.
Respond(t) ==
    /\ threads[t].pc = "respond"
    /\ threads' = [threads EXCEPT ![t] =
            [pc |-> "done", req |-> @.req,
             resp |-> [@.resp EXCEPT
                          !.body.detection_id = cursor_lastrowid(threads[t], sqlite_sequence)]]]
    /\ last' = [op |-> "concurrent"]
    /\ UNCHANGED <<phase, model, torch_load, rows, sqlite_sequence, files>>

NextConcurrent ==
    \/ Main
    \/ \E t \in Threads : Begin(t)
    \/ \E t \in Threads : Execute(t)
    \/ \E t \in Threads : Commit(t)
    \/ \E t \in Threads : Respond(t)

SpecConcurrent == Init /\ [][NextConcurrent]_vars

(***************************************************************************)
(* GET /api/stats while saves commit.  The handler runs two SELECTs on one *)
(* connection without a transaction around them: each SELECT reads the     *)
(* table as committed when it runs, and a save of another thread may       *)
(* commit between the two.                                                 *)
(***************************************************************************)
\* SELECT COUNT(*) FROM detections and fetchone()[0].
StatsCount(t) ==
    /\ phase = "serving"
    /\ threads[t] = Idle
    /\ threads' = [threads EXCEPT ![t] =
            [pc |-> "counted", req |-> [op |-> "get_stats"],
             total_detections |-> CountRows(rows)]]
    /\ last' = [op |-> "concurrent"]
    /\ UNCHANGED <<phase, model, torch_load, rows, sqlite_sequence, files>>

\* SELECT detected_damages FROM detections, the loop over fetchall(),
\* conn.close() and the 200 response.
StatsDistribution(t) ==
    /\ threads[t].pc = "counted"
    /\ threads' = [threads EXCEPT ![t] =
            [pc |-> "done", req |-> @.req,
             resp |-> Response(200,
                        [status |-> "success",
                         stats |-> [total_detections |-> @.total_detections,
                                    damage_type_distribution |->
                                        DamageTypeDistribution(rows, <<>>)]])]]
    /\ last' = [op |-> "concurrent"]
    /\ UNCHANGED <<phase, model, torch_load, rows, sqlite_sequence, files>>

NextStats ==
    \/ Main
    \/ SaveDetection
    \/ \E t \in Threads : StatsCount(t)
    \/ \E t \in Threads : StatsDistribution(t)

SpecStats == Init /\ [][NextStats]_vars

(***************************************************************************)
(* The codec and the detection adapter called on their own, over the       *)
(* values their arguments may take.                                        *)
(***************************************************************************)
\* A JSON number sent as image_base64.
PNumber ==
    [kind |-> "num", prefix |-> FALSE, b64len |-> 0, b64ok |-> FALSE, img |-> NoImage]

\* Lengths of base64 text around the two thresholds (1332 characters decode
\* to 999 bytes, 1336 to 1002).
TextLengths == {0, 4, 96, 99, 100, 1332, 1336, 2000}

DecodeInputs ==
    Payloads \cup {PNumber}
    \cup {Transport(prefix, b64len, b64ok, img) :
            prefix \in BOOLEAN, b64len \in TextLengths, b64ok \in BOOLEAN,
            img \in {NoImage, Image(8, 8), Image(480, 640)}}

\* Heights and widths of pixel buffers.
Sides == {1, 2, 600, 799, 800, 801, 1602, 4000}

\* Model-space coordinates, 0..ModelSize.
Coordinates == {0, 1, 320, 639, 640}

\* Original image sizes <<h, w>> for the rescaling.
OriginalSizes == {<<1, 1>>, <<1, 1602>>, <<1602, 1>>, <<480, 640>>, <<641, 639>>}

\* Class indices a box may carry.
ClassIndices == (-6)..8

\* What model.predict returns to the adapter: one box anywhere in model
\* space, one box of any class index, or one of the outcomes a request may
\* meet (no box, several boxes, a raise).
AdapterOutcomes ==
    {Predicted(<<Box(x1, y1, x2, y2, 0, 90)>>) :
        x1 \in Coordinates, y1 \in Coordinates, x2 \in Coordinates, y2 \in Coordinates}
    \cup {Predicted(<<Box(64, 128, 320, 640, cls, 90)>>) : cls \in ClassIndices}
    \cup ModelOutcomes

\* A call that changes nothing but what `last` records of it.
Calls(op, arg, outcome, ret) ==
    /\ last' = [op |-> op, arg |-> arg, outcome |-> outcome, ret |-> ret]
    /\ UNCHANGED <<phase, model, torch_load, rows, sqlite_sequence, files, threads>>

\* Each run makes one call, once the process has started.
CallBase64ToImage ==
    /\ last.op = "main"
    /\ \E p \in DecodeInputs :
         Calls("base64_to_image", p, PredictRaises, base64_to_image(p))

CallImageToBase64 ==
    /\ last.op = "main"
    /\ \E h \in Sides, w \in Sides :
         Calls("image_to_base64", Image(h, w), PredictRaises,
               image_to_base64(Image(h, w)))

CallRunYoloInference ==
    /\ last.op = "main"
    /\ \E size \in OriginalSizes, outcome \in AdapterOutcomes :
         Calls("run_yolo_inference", Image(size[1], size[2]), outcome,
               run_yolo_inference(Image(size[1], size[2]), model, outcome))

NextCalls ==
    \/ Main
    \/ CallBase64ToImage
    \/ CallImageToBase64
    \/ CallRunYoloInference

SpecCalls == Init /\ [][NextCalls]_vars

(***************************************************************************)
(* Properties                                                              *)
(***************************************************************************)
\* The sum of the values of a mapping to numbers.
RECURSIVE SumValues(_)
SumValues(f) ==
    IF DOMAIN f = {} THEN 0
    ELSE LET key == CHOOSE key \in DOMAIN f : TRUE
         IN  f[key] + SumValues([other \in DOMAIN f \ {key} |-> f[other]])

\* A body with the four required fields, base64 text that decodes,
\* numbers as coordinates and objects as damages.
ValidDetectBody(data) ==
    /\ DOMAIN data = {"image_base64", "latitude", "longitude", "detected_damages"}
    /\ \A i \in 1..Len(data.detected_damages) : IsDict(data.detected_damages[i])
    /\ data.image_base64.kind = "str"
    /\ data.image_base64.b64ok
    /\ data.latitude.k = "num"
    /\ data.longitude.k = "num"

\* C1: a valid POST /api/detect (uploads writable, database answering) is
\* answered 200 with an assigned detection_id and damages_count equal to the
\* length of the submitted list, and GET /api/detections/<detection_id> on
\* the store it leaves returns the same image_id, latitude, longitude and
\* damage list, entry for entry and in the same order.
C1_DetectThenGetRoundTrip ==
    (last.op = "detect_damage" /\ ValidDetectBody(last.req) /\ last.env = EnvOk) =>
        /\ last.resp.code = 200
        /\ last.resp.body.status = "success"
        /\ last.resp.body.detection_id >= 1
        /\ last.resp.body.damages_count = Len(last.req.detected_damages)
        /\ LET got == get_detection(Num(last.resp.body.detection_id), EnvOk, Store)
           IN  /\ got.code = 200
               /\ got.body.detection.id = last.resp.body.detection_id
               /\ got.body.detection.image_id = last.resp.body.image_id
               /\ got.body.detection.latitude = last.req.latitude.v
               /\ got.body.detection.longitude = last.req.longitude.v
               /\ got.body.detection.detected_damages = last.req.detected_damages

C1_Witness ==
    /\ last.op = "detect_damage"
    /\ ValidDetectBody(last.req)
    /\ last.env = EnvOk
    /\ Len(last.req.detected_damages) = 3
    /\ last.resp.code = 200
    /\ last.resp.body.detection_id = 2

\* The message naming the first absent field, in the fixed order.
ExpectedMissingMessage(data) ==
    IF "image_base64" \notin DOMAIN data THEN "Missing required field: image_base64"
    ELSE IF "latitude" \notin DOMAIN data THEN "Missing required field: latitude"
    ELSE IF "longitude" \notin DOMAIN data THEN "Missing required field: longitude"
    ELSE "Missing required field: detected_damages"

\* C2: a POST /api/detect whose body lacks one or more of the four required
\* fields is answered 400 with exactly {status: "error", message: "Missing
\* required field: <f>"}, <f> being the first absent field in the order
\* image_base64, latitude, longitude, detected_damages.
C2_FirstMissingFieldNamed ==
    (/\ last.op = "detect_damage"
     /\ {"image_base64", "latitude", "longitude", "detected_damages"} \ DOMAIN last.req # {})
    => last.resp = [code |-> 400,
                    body |-> [status |-> "error",
                              message |-> ExpectedMissingMessage(last.req)]]

C2_Witness ==
    /\ last.op = "detect_damage"
    /\ DOMAIN last.req = {"image_base64", "longitude"}
    /\ last.resp.code = 400
    /\ last.resp.body.message = "Missing required field: latitude"

\* C3: GET /api/detections/<id> (database answering) returns 404 with
\* status "error" when no row has that id and 200 with that row when one
\* has; a 200 always carries an id that an insert assigned.
C3_GetDetectionFoundOrNotFound ==
    (last.op = "get_detection" /\ last.env = EnvOk) =>
        LET matching == {i \in 1..Len(rows) :
                            last.req.k = "num" /\ rows[i].id = last.req.v}
        IN  /\ matching = {} =>
                /\ last.resp.code = 404
                /\ last.resp.body.status = "error"
            /\ matching # {} =>
                /\ last.resp.code = 200
                /\ last.resp.body.status = "success"
                /\ \E i \in matching :
                      /\ last.resp.body.detection.id = rows[i].id
                      /\ last.resp.body.detection.image_id = rows[i].image_id
                      /\ last.resp.body.detection.image_path = rows[i].image_path
                      /\ last.resp.body.detection.timestamp = rows[i].timestamp
            /\ last.resp.code = 200 =>
                last.resp.body.detection.id \in 1..sqlite_sequence

C3_Witness ==
    /\ last.op = "get_detection"
    /\ last.env = EnvOk
    /\ last.req = Num(999999)
    /\ Len(rows) >= 1
    /\ last.resp.code = 404

\* C4: GET /api/detections (database answering) returns every row of the
\* table exactly once, in non-increasing timestamp order, with count equal
\* to the number of rows returned.
C4_ListIsCompleteAndNewestFirst ==
    (last.op = "get_detections" /\ last.env = EnvOk) =>
        /\ last.resp.code = 200
        /\ LET listed == last.resp.body.detections
           IN  /\ Len(listed) = Len(rows)
               /\ \A i \in 1..Len(rows) :
                     Cardinality({j \in 1..Len(listed) :
                                     /\ listed[j].id = rows[i].id
                                     /\ listed[j].image_id = rows[i].image_id
                                     /\ listed[j].timestamp = rows[i].timestamp}) = 1
               /\ \A j \in 1..(Len(listed) - 1) :
                     listed[j].timestamp >= listed[j + 1].timestamp
               /\ last.resp.body.count = Len(listed)

C4_Witness ==
    /\ last.op = "get_detections"
    /\ last.env = EnvOk
    /\ Len(rows) = 2
    /\ rows[1].timestamp < rows[2].timestamp
    /\ last.resp.code = 200

\* The damage entries of the table: <<row, position>> pairs.
DamageEntries ==
    UNION {{<<i, j>> : j \in 1..Len(json_loads(rows[i].detected_damages))} :
            i \in 1..Len(rows)}

\* The class an entry is counted under.
EntryClass(e) ==
    LET damage == json_loads(rows[e[1]].detected_damages)[e[2]]
    IN  IF "class" \in DOMAIN damage THEN damage.class ELSE "Unknown"

\* C5: GET /api/stats (database answering) reports total_detections equal
\* to the number of rows ever inserted, and a damage_type_distribution whose
\* values sum to the number of damage entries over all rows, each entry
\* counted once under its class or under "Unknown" when it has none.
C5_StatsCountRowsAndEntries ==
    (last.op = "get_stats" /\ last.env = EnvOk) =>
        /\ last.resp.code = 200
        /\ LET stats == last.resp.body.stats
               distribution == stats.damage_type_distribution
           IN  /\ stats.total_detections = sqlite_sequence
               /\ stats.total_detections = Len(rows)
               /\ SumValues(distribution) = Cardinality(DamageEntries)
               /\ DOMAIN distribution = {EntryClass(e) : e \in DamageEntries}
               /\ \A c \in DOMAIN distribution :
                     distribution[c] = Cardinality({e \in DamageEntries : EntryClass(e) = c})

C5_Witness ==
    /\ last.op = "get_stats"
    /\ last.env = EnvOk
    /\ Len(rows) = 2
    /\ last.resp.code = 200
    /\ "Unknown" \in DOMAIN last.resp.body.stats.damage_type_distribution
    /\ last.resp.body.stats.damage_type_distribution["Potholes"] >= 2

\* What base64_to_image rejects, read off the transport string: no string,
\* base64 text under 100 characters, text b64decode refuses, fewer than
\* 1000 decoded bytes, or bytes that hold no image.
CannotDecode(p) ==
    \/ p.kind # "str"
    \/ p.b64len < 100
    \/ ~p.b64ok
    \/ (p.b64len \div 4) * 3 < 1000
    \/ p.img.h = 0
    \/ p.img.w = 0

\* A POST /api/infer that reaches inference with the model handle absent.
InferWithoutModel ==
    /\ last.op = "infer_damage"
    /\ model = "absent"
    /\ "image_base64" \in DOMAIN last.req
    /\ ~CannotDecode(last.req.image_base64)

\* C6 (as the spec states it): with the model handle absent, POST /api/infer
\* with any decodable image returns 200 with detection_count 0, no
\* detections, and an annotated image of the input's width and height.
C6_SameDimensionsForAnyImage ==
    InferWithoutModel =>
        /\ last.resp.code = 200
        /\ last.resp.body.detection_count = 0
        /\ last.resp.body.detections = <<>>
        /\ last.resp.body.annotated_image_base64.kind = "str"
        /\ last.resp.body.annotated_image_base64.img.h = last.req.image_base64.img.h
        /\ last.resp.body.annotated_image_base64.img.w = last.req.image_base64.img.w

\* C6 (amended): with the model handle absent, POST /api/infer with a
\* decodable image of width and height at most 800 returns 200 with
\* detection_count 0, no detections, and an annotated image of the input's
\* width and height; a larger image is answered 200 or 500, and a 200
\* response carries no detections and the image downsampled so that its
\* larger side is 800 and the other side floor(smaller * 800 / larger).
C6_SameDimensionsUpTo800 ==
    InferWithoutModel =>
        LET input == last.req.image_base64.img
            larger == IF input.h > input.w THEN input.h ELSE input.w
        IN  /\ larger <= 800 => last.resp.code = 200
            /\ last.resp.code \in {200, 500}
            /\ last.resp.code = 200 =>
                LET sent == last.resp.body.annotated_image_base64 IN
                /\ last.resp.body.status = "success"
                /\ last.resp.body.detection_count = 0
                /\ last.resp.body.detections = <<>>
                /\ sent.kind = "str"
                /\ sent.prefix
                /\ sent.img.marks = <<>>
                /\ larger <= 800 => (sent.img.h = input.h /\ sent.img.w = input.w)
                /\ (larger > 800 /\ input.h > input.w) =>
                      (sent.img.h = 800 /\ sent.img.w = (input.w * 800) \div input.h)
                /\ (larger > 800 /\ input.h <= input.w) =>
                      (sent.img.w = 800 /\ sent.img.h = (input.h * 800) \div input.w)

C6_Witness ==
    /\ InferWithoutModel
    /\ last.req.image_base64.img.h = 600
    /\ last.req.image_base64.img.w = 801
    /\ last.resp.code = 200
    /\ last.resp.body.annotated_image_base64.img.h = 599
    /\ last.resp.body.annotated_image_base64.img.w = 800

\* C7: when model.predict raises, or the processing of a box raises, POST
\* /api/infer answers 200 with detection_count 0, no detections and the
\* original image without any box drawn on it.
C7_DetectionFailureAnswers200 ==
    (/\ last.op = "infer_damage"
     /\ last.invoked
     /\ \/ last.outcome.raises
        \/ \E i \in 1..Len(last.outcome.boxes) : last.outcome.boxes[i].cls < -4)
    =>  /\ last.resp.code = 200
        /\ last.resp.body.detection_count = 0
        /\ last.resp.body.detections = <<>>
        /\ last.resp.body.annotated_image_base64.img.marks = <<>>

\* C8: POST /api/infer answers 400 with status "error" when the body has no
\* image_base64 key or base64_to_image cannot decode its value, and then the
\* model is not invoked, no file is written and no row is inserted.
C8_UndecodableIs400WithoutEffects ==
    (/\ last.op = "infer_damage"
     /\ \/ "image_base64" \notin DOMAIN last.req
        \/ CannotDecode(last.req.image_base64))
    =>  /\ last.resp.code = 400
        /\ last.resp.body.status = "error"
        /\ "message" \in DOMAIN last.resp.body
        /\ ~last.invoked
        /\ files = last.pre.files
        /\ rows = last.pre.rows
        /\ sqlite_sequence = last.pre.seq

C8_Witness ==
    /\ last.op = "infer_damage"
    /\ model = "loaded"
    /\ "image_base64" \in DOMAIN last.req
    /\ last.req.image_base64.b64len = 96
    /\ Len(rows) >= 1
    /\ last.resp.code = 400
    /\ last.resp.body.message = "Failed to decode image"

\* The keys every 200 response of POST /api/infer has, and those a save adds.
InferKeys == {"status", "annotated_image_base64", "detections", "detection_count"}

SavedKeys == {"saved", "detection_id", "image_id"}

\* The four conditions under which POST /api/infer is said to insert a row:
\* save_result truthy, detections found, latitude and longitude given and
\* not null, and the original image written to uploads/.
InferSaveConditions ==
    /\ "save_result" \in DOMAIN last.req
    /\ last.req.save_result \notin {Bool(FALSE), Null, Num(0), Str("")}
    /\ last.invoked
    /\ ~last.outcome.raises
    /\ last.outcome.boxes # <<>>
    /\ \A i \in 1..Len(last.outcome.boxes) : last.outcome.boxes[i].cls >= -4
    /\ "latitude" \in DOMAIN last.req /\ last.req.latitude # Null
    /\ "longitude" \in DOMAIN last.req /\ last.req.longitude # Null
    /\ files # last.pre.files

\* C9: a 200 response of POST /api/infer has saved, detection_id and image_id
\* exactly when the request inserted a row; a row is inserted exactly when
\* the four conditions hold; otherwise nothing is inserted and a 200 response
\* has only status, annotated_image_base64, detections and detection_count.
\* Stated for requests that find the uploads directory writable and the
\* database answering.
C9_SavedExactlyWhenConditionsHold ==
    (last.op = "infer_damage" /\ last.env = EnvOk) =>
        LET inserted == Len(rows) = Len(last.pre.rows) + 1 IN
        /\ Len(rows) \in {Len(last.pre.rows), Len(last.pre.rows) + 1}
        /\ last.resp.code = 200 =>
              /\ inserted <=> SavedKeys \subseteq DOMAIN last.resp.body
              /\ ~inserted => DOMAIN last.resp.body = InferKeys
        /\ inserted <=> InferSaveConditions

\* C10: every failure response, of every handler, is a JSON envelope with
\* status "error" and a message.
C10_FailuresAreErrorEnvelopes ==
    (last.op \notin {"none", "main"} /\ last.resp.code >= 400) =>
        /\ "status" \in DOMAIN last.resp.body
        /\ last.resp.body.status = "error"
        /\ "message" \in DOMAIN last.resp.body

\* The handlers that only read.
ReadOps ==
    {"home", "dashboard", "get_detection_image", "get_detections", "get_detection",
     "get_stats"}

\* C11: the table is append-only: every step keeps each existing row as it
\* is, in its place; a step that changes the table is a POST /api/detect or a
\* POST /api/infer and adds exactly one row; the six GET handlers leave the
\* table and the uploads directory unchanged.
C11_TableIsAppendOnly ==
    [][/\ Len(rows') >= Len(rows)
       /\ \A i \in 1..Len(rows) : rows'[i] = rows[i]
       /\ rows' # rows =>
            /\ last'.op \in {"detect_damage", "infer_damage"}
            /\ Len(rows') = Len(rows) + 1
       /\ last'.op \in ReadOps => (rows' = rows /\ files' = files)]_vars

C11_Witness ==
    /\ last.op = "dashboard"
    /\ Len(rows) = 2
    /\ last.pre.rows = rows
    /\ last.pre.files = files
    /\ rows[1].timestamp > rows[2].timestamp

\* C12: no two rows share an id or an image_id, and ids strictly increase
\* in insertion order, whichever endpoint inserted the rows.
C12_IdsUniqueAndIncreasing ==
    /\ \A i \in 1..Len(rows) : rows[i].id \in 1..sqlite_sequence
    /\ \A i \in 1..Len(rows) : \A j \in (i + 1)..Len(rows) :
          /\ rows[i].id < rows[j].id
          /\ rows[i].image_id # rows[j].image_id

\* A row of POST /api/detect followed by a row of POST /api/infer.
C12_Witness ==
    /\ Len(rows) = 2
    /\ last.op = "infer_damage"
    /\ last.resp.code = 200
    /\ last.resp.body.detection_id = 2
    /\ Len(last.pre.rows) = 1
    /\ json_loads(rows[1].detected_damages) = <<Pothole, Unclassed, Unscored>>

\* C13: GET /api/image/<id> (database answering) returns 404 when no row has
\* that id or when the row's image_path names no existing file, and returns
\* the stored file as image/jpeg exactly when the row and the file both exist.
C13_ImageServedOnlyWhenRowAndFileExist ==
    (last.op = "get_detection_image" /\ last.env = EnvOk) =>
        LET found == {i \in 1..Len(rows) : rows[i].id = last.req} IN
        /\ found = {} => last.resp.code = 404
        /\ \A i \in found :
              /\ rows[i].image_path \notin files => last.resp.code = 404
              /\ rows[i].image_path \in files =>
                    /\ last.resp.code = 200
                    /\ last.resp.body.file = rows[i].image_path
                    /\ last.resp.body.mimetype = "image/jpeg"
        /\ last.resp.code = 200 =>
              \E i \in found : rows[i].image_path \in files

\* The row is there and its file has been removed.
C13_Witness ==
    /\ last.op = "get_detection_image"
    /\ last.env = EnvOk
    /\ \E i \in 1..Len(rows) : rows[i].id = last.req /\ rows[i].image_path \notin files
    /\ \E i \in 1..Len(rows) : rows[i].image_path \in files
    /\ last.resp.code = 404

\* The threads whose request has been answered with a saved detection.
Saved == {t \in Threads : threads[t].pc = "done" /\ "detection_id" \in DOMAIN threads[t].resp.body}

\* The damage list a saving request stored: the one it sent to POST
\* /api/detect, or the detections POST /api/infer found for it.
OwnDamages(t) ==
    IF threads[t].req.op = "detect_damage"
    THEN threads[t].req.data.detected_damages
    ELSE threads[t].resp.body.detections

\* C14: with saving requests running concurrently, each inserts exactly one
\* row, the detection_id it returns is the id of the row that holds its own
\* image_id and damages, and no two requests return the same detection_id.
C14_ConcurrentSavesGetTheirOwnId ==
    /\ \A t \in Saved :
          LET body == threads[t].resp.body
              own == {i \in 1..Len(rows) : rows[i].image_id = body.image_id}
          IN  /\ threads[t].resp.code = 200
              /\ Cardinality(own) = 1
              /\ \A i \in own :
                    /\ rows[i].id = body.detection_id
                    /\ json_loads(rows[i].detected_damages) = OwnDamages(t)
    /\ \A t \in Saved : \A u \in Saved \ {t} :
          threads[t].resp.body.detection_id # threads[u].resp.body.detection_id
    /\ Len(rows) = Cardinality({t \in Threads : threads[t].pc = "respond"} \cup Saved)

\* Thread 2 inserted first and has not answered yet; thread 1 inserted after
\* it and has answered.
C14_Witness ==
    /\ 1 \in Saved
    /\ threads[1].resp.body.detection_id = 2
    /\ threads[1].req.op = "infer_damage"
    /\ threads[2].pc = "respond"
    /\ threads[2].lastrowid = 1
    /\ threads[2].req.op = "detect_damage"

\* C15: base64_to_image returns a decoded image or None for every input and
\* never raises: null, a value that is no string, an empty string, text
\* b64decode refuses and bytes that hold no image all yield None, and so
\* does every payload whose base64 text is shorter than 100 characters.
C15_Base64ToImageIsTotal ==
    last.op = "base64_to_image" =>
        /\ ~last.ret.raised
        /\ last.ret.ok => (last.ret.image.h >= 1 /\ last.ret.image.w >= 1)
        /\ ~last.ret.ok => last.ret.image = NoImage
        /\ last.arg.kind # "str" => ~last.ret.ok
        /\ last.arg.b64len < 100 => ~last.ret.ok
        /\ ~last.arg.b64ok => ~last.ret.ok
        /\ last.arg.img = NoImage => ~last.ret.ok

\* Text of full length that b64decode refuses.
C15_Witness ==
    /\ last.op = "base64_to_image"
    /\ last.arg.kind = "str"
    /\ last.arg.b64len = 2000
    /\ ~last.arg.b64ok
    /\ last.arg.img = Image(480, 640)
    /\ ~last.ret.ok
    /\ ~last.ret.raised

\* C16: for every image of height and width at least 1, image_to_base64
\* encodes an image of the same size when neither side exceeds 800, and
\* otherwise one whose larger side is 800 and whose other side is
\* floor(smaller * 800 / larger), a non-zero size; no side grows.
C16_EncodedSizeIsValid ==
    (last.op = "image_to_base64" /\ last.arg.h >= 1 /\ last.arg.w >= 1) =>
        LET h == last.arg.h
            w == last.arg.w
            sent == last.ret.img
        IN  /\ last.ret.kind = "str"
            /\ sent.h >= 1 /\ sent.w >= 1
            /\ sent.h <= h /\ sent.w <= w
            /\ (h <= 800 /\ w <= 800) => (sent.h = h /\ sent.w = w)
            /\ (h > 800 /\ h > w) => (sent.h = 800 /\ sent.w = (w * 800) \div h)
            /\ (w > 800 /\ w >= h) => (sent.w = 800 /\ sent.h = (h * 800) \div w)

\* The boxes the adapter was given all lie in model space.
BoxesInModelSpace ==
    \A i \in 1..Len(last.outcome.boxes) :
        \A k \in 1..4 : last.outcome.boxes[i].xyxy[k] \in 0..640

\* C17: for an original image of w_ori x h_ori and a box with all four
\* coordinates in 0..640, the bbox run_yolo_inference emits is
\* <<x1 * w_ori / 640, y1 * h_ori / 640, x2 * w_ori / 640, y2 * h_ori / 640>>
\* truncated to integers, with 0 <= x <= w_ori and 0 <= y <= h_ori.
C17_BboxWithinOriginalImage ==
    (/\ last.op = "run_yolo_inference"
     /\ model = "loaded"
     /\ BoxesInModelSpace
     /\ \A i \in 1..Len(last.outcome.boxes) : last.outcome.boxes[i].cls \in 0..3)
    =>  /\ Len(last.ret.detections) = Len(last.outcome.boxes)
        /\ \A i \in 1..Len(last.ret.detections) :
              LET bbox == last.ret.detections[i].bbox
                  box == last.outcome.boxes[i].xyxy
              IN  /\ bbox[1] = (box[1] * last.arg.w) \div 640
                  /\ bbox[2] = (box[2] * last.arg.h) \div 640
                  /\ bbox[3] = (box[3] * last.arg.w) \div 640
                  /\ bbox[4] = (box[4] * last.arg.h) \div 640
                  /\ bbox[1] \in 0..last.arg.w
                  /\ bbox[3] \in 0..last.arg.w
                  /\ bbox[2] \in 0..last.arg.h
                  /\ bbox[4] \in 0..last.arg.h

\* A box reaching the right edge of a 1-pixel-high, 1602-pixel-wide image.
C17_Witness ==
    /\ last.op = "run_yolo_inference"
    /\ model = "loaded"
    /\ last.arg.h = 1
    /\ last.arg.w = 1602
    /\ Len(last.outcome.boxes) = 1
    /\ Len(last.ret.detections) = 1
    /\ last.outcome.boxes[1].xyxy = <<1, 639, 640, 640>>
    /\ last.ret.detections[1].bbox = <<2, 0, 1602, 1>>

\* C18: for every integer class index, run_yolo_inference labels the
\* detection CLASSES[index] when the index is in 0..3 and "Class_<index>"
\* otherwise; an index outside 0..3 never gets one of the four fixed labels
\* and never makes the detection fail.
C18_LabelByClassIndex ==
    (last.op = "run_yolo_inference" /\ model = "loaded" /\ BoxesInModelSpace) =>
        /\ Len(last.ret.detections) = Len(last.outcome.boxes)
        /\ \A i \in 1..Len(last.ret.detections) :
              LET index == last.outcome.boxes[i].cls
                  label == last.ret.detections[i].class
              IN  /\ index \in 0..3 => label = CLASSES[index + 1]
                  /\ index \notin 0..3 =>
                        /\ label = "Class_" \o ToString(index)
                        /\ \A k \in 1..Len(CLASSES) : label # CLASSES[k]

\* C19: the handle is set only by load_yolo_model at process start, which
\* returns True exactly when the handle holds a loaded model and otherwise
\* False with the handle absent; torch.load is the original function after
\* it on every path; the process goes on to serve, and no handler assigns
\* the handle or torch.load.
C19_HandleSetOnlyAtStart ==
    [][/\ phase = "start" =>
            /\ phase' = "serving"
            /\ last'.op = "main"
            /\ last'.ret <=> model' = "loaded"
            /\ ~last'.ret => model' = "absent"
            /\ torch_load' = "original"
       /\ phase = "serving" =>
            /\ phase' = "serving"
            /\ model' = model
            /\ torch_load' = torch_load]_vars

\* The file is there and both load attempts have raised.
C19_Witness ==
    /\ last.op = "main"
    /\ last.req.exists
    /\ last.req.firstRaises
    /\ last.req.secondRaises
    /\ ~last.ret
    /\ model = "absent"
    /\ torch_load = "original"
    /\ phase = "serving"

\* No collaborator is named twice among the calls.
AtMostOnceEach(calls) ==
    \A i \in 1..Len(calls) : \A j \in 1..Len(calls) : calls[i] = calls[j] => i = j

\* Every request handled has got one response.
OneResponse ==
    last.op \in ReadOps \cup {"detect_damage", "infer_damage"} =>
        /\ "resp" \in DOMAIN last
        /\ last.resp.code \in {200, 400, 404, 500}

\* C20 (as the spec states it): within a request and within process
\* start-up every collaborator call (model load, predict, image write, row
\* insert, encode, decode) is attempted at most once, and every request
\* handled has exactly one response.
C20_EveryCallAtMostOnce ==
    /\ last.op \in {"main", "detect_damage", "infer_damage"} => AtMostOnceEach(last.calls)
    /\ OneResponse

\* C20 (amended): within a request every collaborator call is attempted at
\* most once and every request handled has exactly one response; process
\* start-up loads the model with one YOLO(...) call, and with a second one,
\* torch.load patched, exactly when the file is at MODEL_PATH and the first
\* call raised; no further attempt is made.
C20_OnlyTheLoadIsTriedAgain ==
    /\ last.op \in {"detect_damage", "infer_damage"} => AtMostOnceEach(last.calls)
    /\ OneResponse
    /\ last.op = "main" =>
          /\ \A i \in 1..Len(last.calls) : last.calls[i] = "YOLO"
          /\ Len(last.calls) <= 2
          /\ Len(last.calls) = 2 <=> (last.req.exists /\ last.req.firstRaises)
          /\ Len(last.calls) = 0 <=> (~last.req.exists /\ ~last.req.absExists)

\* The second attempt was made and loaded the model.
C20_Witness ==
    /\ last.op = "main"
    /\ last.calls = <<"YOLO", "YOLO">>
    /\ last.ret
    /\ model = "loaded"

\* C21: every row of the table, whichever endpoint stored it, has
\* confidence_scores of the same length as detected_damages, and
\* confidence_scores[i] is the confidence of detected_damages[i], 0.0 when
\* that damage has no confidence key.
C21_ScoresParallelToDamages ==
    \A r \in 1..Len(rows) :
        LET detected_damages == json_loads(rows[r].detected_damages)
            confidence_scores == json_loads(rows[r].confidence_scores)
        IN  /\ Len(confidence_scores) = Len(detected_damages)
            /\ \A i \in 1..Len(detected_damages) :
                  confidence_scores[i] =
                      IF "confidence" \in DOMAIN detected_damages[i]
                      THEN detected_damages[i].confidence ELSE 0

\* A row of POST /api/detect with a damage that has no confidence, next to
\* a row of POST /api/infer with two detections.
C21_Witness ==
    /\ Len(rows) = 2
    /\ last.op = "infer_damage"
    /\ Len(last.pre.rows) = 1
    /\ json_loads(rows[1].detected_damages) = <<Pothole, Unclassed, Unscored>>
    /\ json_loads(rows[1].confidence_scores) = <<85, 50, 0>>
    /\ Len(json_loads(rows[2].confidence_scores)) = 2

\* C22: a POST /api/detect that is answered with anything but 200 (a missing
\* field, an image that cannot be saved, a latitude or longitude that is no
\* number, a failed insert) leaves the table and the uploads directory as
\* they were before the request.
C22_FailedDetectLeavesNoTrace ==
    (last.op = "detect_damage" /\ last.resp.code # 200) =>
        /\ rows = last.pre.rows
        /\ sqlite_sequence = last.pre.seq
        /\ files = last.pre.files

\* The threads that have written their image and not yet committed their row.
BetweenFileAndRow == {t \in Threads : threads[t].pc \in {"execute", "commit"}}

\* C23: in every state, those in the middle of concurrent saves included,
\* each row has image_path uploads/<image_id>.jpg and the file is there; a
\* request about to insert has already written the file its row will name;
\* and GET /api/image/<id> answers 200 for every id a save has returned
\* (nothing but the service touching uploads/).
C23_FileWrittenBeforeRow ==
    /\ \A i \in 1..Len(rows) :
          /\ rows[i].image_path = [dir |-> "uploads", name |-> rows[i].image_id, ext |-> "jpg"]
          /\ rows[i].image_path \in files
    /\ \A t \in BetweenFileAndRow :
          /\ threads[t].row.image_path \in files
          /\ threads[t].row.image_path.name = threads[t].row.image_id
    /\ \A t \in Saved :
          get_detection_image(threads[t].resp.body.detection_id, EnvOk, Store).code = 200

\* Thread 1 has written its file and not inserted its row; thread 2 has
\* saved and been answered.
C23_Witness ==
    /\ threads[1].pc = "execute"
    /\ 2 \in Saved
    /\ Len(rows) = 1
    /\ Cardinality(files) = 2
    /\ threads[1].row.image_path \in files
    /\ \A i \in 1..Len(rows) : rows[i].image_path # threads[1].row.image_path

\* The threads whose GET /api/stats has been answered.
StatsAnswered ==
    {t \in Threads : threads[t].pc = "done" /\ threads[t].req.op = "get_stats"}

\* C24: every GET /api/stats response describes one snapshot of the table,
\* also with inserts committing while it runs: total_detections is the
\* number of rows whose damages were counted into damage_type_distribution
\* (the table only grows, so a snapshot is the first n rows for some n).
C24_StatsDescribeOneSnapshot ==
    \A t \in StatsAnswered :
        LET stats == threads[t].resp.body.stats IN
        /\ stats.total_detections \in 0..Len(rows)
        /\ stats.damage_type_distribution =
              DamageTypeDistribution(SubSeq(rows, 1, stats.total_detections), <<>>)

\* C25: on every table state the two save endpoints can produce, /dashboard
\* and GET /api/stats compute the same total_detections and the same
\* damage_type_distribution, and one succeeds exactly when the other does
\* (both asked with the database answering, or both with it down).
C25_DashboardStatsEqualApiStats ==
    phase = "serving" =>
        /\ \A env \in ReadEnvs :
              dashboard(env, Store).code = 200 <=> get_stats(env, Store).code = 200
        /\ LET shown == dashboard(EnvOk, Store)
               sent == get_stats(EnvOk, Store)
           IN  /\ shown.code = 200
               /\ sent.code = 200
               /\ shown.body.stats.total_detections = sent.body.stats.total_detections
               /\ shown.body.stats.damage_type_distribution =
                     sent.body.stats.damage_type_distribution

\* The dashboard has shown two rows, the newer one first: a row of POST
\* /api/detect with a damage counted under "Unknown" and a later row of
\* POST /api/infer.
C25_Witness ==
    /\ last.op = "dashboard"
    /\ last.env = EnvOk
    /\ Len(rows) = 2
    /\ rows[1].timestamp < rows[2].timestamp
    /\ json_loads(rows[1].detected_damages) = <<Pothole, Unclassed, Unscored>>
    /\ Len(json_loads(rows[2].detected_damages)) = 2
    /\ last.resp.body.detections[1].id = 2
    /\ last.resp.body.stats.total_detections = 2
    /\ last.resp.body.stats.damage_type_distribution["Unknown"] = 1
    /\ last.resp.body.stats.damage_type_distribution["Potholes"] = 2

\* C26: run_yolo_inference returns either a copy of the input with one
\* rectangle drawn per model box together with one detection per model box,
\* in the model's order, or - the handle absent, or any step failing, also
\* after some boxes were processed - the input image as it was together
\* with an empty list; never part of the detections or an image with part
\* of the rectangles; and the caller's buffer is the same after the call.
C26_AllOrNothingAndInputUntouched ==
    last.op = "run_yolo_inference" =>
        LET boxes == last.outcome.boxes
            ret == last.ret
            nothing == ret.image = last.arg /\ ret.detections = <<>>
            all ==
                /\ Len(ret.detections) = Len(boxes)
                /\ Len(ret.image.marks) = Len(boxes)
                /\ ret.image.h = last.arg.h /\ ret.image.w = last.arg.w
                /\ \A i \in 1..Len(boxes) :
                      /\ ret.detections[i].confidence = boxes[i].conf
                      /\ ret.detections[i].bbox[1] =
                            (boxes[i].xyxy[1] * last.arg.w) \div 640
                      /\ ret.image.marks[i].bbox = ret.detections[i].bbox
                      /\ ret.image.marks[i].label = ret.detections[i].class
        IN  /\ ret.input = last.arg
            /\ nothing \/ all
            /\ (model = "loaded" /\ ~last.outcome.raises
                  /\ \A i \in 1..Len(boxes) : boxes[i].cls >= -4) => all
            /\ (model = "absent" \/ last.outcome.raises
                  \/ \E i \in 1..Len(boxes) : boxes[i].cls < -4) => nothing

\* The second of two boxes raised after the first had been drawn on the
\* copy: the input comes back, unmarked, with no detection.
C26_Witness ==
    /\ last.op = "run_yolo_inference"
    /\ model = "loaded"
    /\ last.outcome = BadSecondBox
    /\ last.arg = Image(480, 640)
    /\ last.ret.image = Image(480, 640)
    /\ last.ret.detections = <<>>
    /\ last.ret.input = last.arg

\* Decoding and encoding of the last POST /api/infer both succeeded (the
\* inference step itself always hands back an image and a list).
InferPipelineSucceeded ==
    /\ last.op = "infer_damage"
    /\ "image_base64" \in DOMAIN last.req
    /\ base64_to_image(last.req.image_base64).ok
    /\ image_to_base64(
          run_yolo_inference(base64_to_image(last.req.image_base64).image,
                             model, last.outcome).image).kind # "none"

\* C27: when decoding, inference and encoding of a POST /api/infer succeed,
\* the response is 200 with the detections and the annotated image whatever
\* becomes of the optional save; a save that fails (image not written, a
\* latitude or longitude that is no number, a failed insert) only leaves
\* saved, detection_id and image_id out of the response, and never leaves an
\* image file without a row.
C27_SaveFailureOnlyDropsSavedFields ==
    InferPipelineSucceeded =>
        /\ last.resp.code = 200
        /\ InferKeys \subseteq DOMAIN last.resp.body
        /\ last.resp.body.detection_count = Len(last.resp.body.detections)
        /\ rows = last.pre.rows =>
              /\ files = last.pre.files
              /\ DOMAIN last.resp.body = InferKeys

====
